---- MODULE Spec2Model ----
(***************************************************************************)
(* A model of three pieces of the telegram bot library:                    *)
(*   - Command::try_from(Message)  (src/types/message/command.rs)          *)
(*   - the builder setters of InputMediaVideo                              *)
(*                                 (src/types/media/input/video.rs)        *)
(*   - the builder setters of OrderInfo (src/types/payment/order.rs)       *)
(*                                                                         *)
(* A string is a sequence of Unicode scalar values (integers).  Its byte   *)
(* length (UTF-8) and its UTF-16 encoding are computed as Rust computes    *)
(* them, so that a byte offset and a UTF-16 offset are different numbers   *)
(* as soon as a character is not ASCII.                                    *)
(***************************************************************************)
EXTENDS Integers, Sequences, FiniteSets, TLC

VARIABLES
    message,   \* the Message handed to Command::try_from
    result,    \* what try_from returned (NoResult before the call)
    pc,        \* "input" before the call of try_from, "done" after; "builder" in a builder chain
    built,     \* which record the builder chain works on: "InputMediaVideo" | "OrderInfo" | "none"
    video,     \* the InputMediaVideo of the chain
    order,     \* the OrderInfo of the chain
    last       \* the last builder call: [fn, value]

vars == <<message, result, pc, built, video, order, last>>

----------------------------------------------------------------------------
(* Bounds of the model *)

\* the longest message text, in characters
MaxLen == 6

\* the longest entity list of a message text
MaxEntities == 2

----------------------------------------------------------------------------
(* Option<T> *)

None == [some |-> FALSE]

Some(v) == [some |-> TRUE, value |-> v]

----------------------------------------------------------------------------
(* Strings: sequences of Unicode scalar values *)

\* '/'
Slash == {47}

\* '@'
At == {64}

\* '\''
Quote == {39}

\* a letter a bot command or a bot name is made of
Letters == {97}

\* char::is_whitespace, restricted to the characters below U+0100
Whitespace == {9, 10, 11, 12, 13, 32, 133, 160}

\* a character outside the Basic Multilingual Plane: U+1F600, 4 bytes, 2 UTF-16 units
Astral == {128512}

\* the characters message texts are drawn from
Alphabet == Slash \cup At \cup Quote \cup Letters \cup {32} \cup Astral

\* char::len_utf8
len_utf8(c) == IF c < 128 THEN 1 ELSE IF c < 2048 THEN 2 ELSE IF c < 65536 THEN 3 ELSE 4

\* str::len: the length of a string in bytes
RECURSIVE str_len(_)
str_len(s) == IF s = <<>> THEN 0 ELSE len_utf8(Head(s)) + str_len(Tail(s))

\* whether pat occurs in s at character index i (0-based)
MatchesAt(s, pat, i) ==
    /\ i + Len(pat) <= Len(s)
    /\ \A k \in 1..Len(pat) : s[i + k] = pat[k]

\* str::find: the byte offset of the first occurrence of pat in s
find(s, pat) ==
    LET hits == {i \in 0..Len(s) : MatchesAt(s, pat, i)}
    IN  IF hits = {} THEN None
        ELSE LET i == CHOOSE h \in hits : \A g \in hits : h <= g
             IN  Some(str_len(SubSeq(s, 1, i)))

\* Option::unwrap_or
unwrap_or(opt, default) == IF opt.some THEN opt.value ELSE default

\* char::encode_utf16
char_encode_utf16(c) ==
    IF c < 65536 THEN <<c>>
    ELSE <<55296 + ((c - 65536) \div 1024), 56320 + ((c - 65536) % 1024)>>

\* str::encode_utf16
RECURSIVE encode_utf16(_)
encode_utf16(s) ==
    IF s = <<>> THEN <<>> ELSE char_encode_utf16(Head(s)) \o encode_utf16(Tail(s))

\* Iterator::skip(n).collect()
skip(units, n) == SubSeq(units, n + 1, Len(units))

IsHighSurrogate(u) == u >= 55296 /\ u <= 56319

IsLowSurrogate(u) == u >= 56320 /\ u <= 57343

\* String::from_utf16: Some(string), or None for FromUtf16Error (a lone surrogate)
RECURSIVE from_utf16(_)
from_utf16(units) ==
    IF units = <<>> THEN Some(<<>>)
    ELSE LET u == Head(units)
         IN  IF ~IsHighSurrogate(u) /\ ~IsLowSurrogate(u)
             THEN LET rest == from_utf16(Tail(units))
                  IN  IF rest.some THEN Some(<<u>> \o rest.value) ELSE None
             ELSE IF IsLowSurrogate(u) \/ Len(units) < 2 \/ ~IsLowSurrogate(units[2])
             THEN None
             ELSE LET rest == from_utf16(Tail(Tail(units)))
                      c == 65536 + (u - 55296) * 1024 + (units[2] - 56320)
                  IN  IF rest.some THEN Some(<<c>> \o rest.value) ELSE None

\* str::split_whitespace().collect(): the maximal runs of non-whitespace characters
RECURSIVE split_whitespace(_)
split_whitespace(s) ==
    IF s = <<>> THEN <<>>
    ELSE IF Head(s) \in Whitespace THEN split_whitespace(Tail(s))
    ELSE LET stops == {i \in 1..Len(s) : s[i] \in Whitespace}
             end == IF stops = {} THEN Len(s) + 1
                    ELSE CHOOSE i \in stops : \A j \in stops : i <= j
         IN  <<SubSeq(s, 1, end - 1)>> \o split_whitespace(SubSeq(s, end, Len(s)))

----------------------------------------------------------------------------
(* Messages *)

\* TextEntity: its kind and its position in the text, in UTF-16 code units
TextEntity(kind, offset, length) == [kind |-> kind, offset |-> offset, length |-> length]

\* Text: the text of a message and its entities
Text(data, entities) == [data |-> data, entities |-> entities]

\* Message, as far as Command reads it: Message::get_text
Message(text) == [text |-> text]

\* TextEntityBotCommand: the command with its leading slash, and the bot name after '@'
TextEntityBotCommand(command, bot_name) == [command |-> command, bot_name |-> bot_name]

\* the content of the entity e in data, cut at the first '@'
BotCommandOf(data, e) ==
    LET raw == from_utf16(SubSeq(encode_utf16(data), e.offset + 1, e.offset + e.length))
        content == unwrap_or(raw, <<>>)
        ats == {i \in 1..Len(content) : content[i] \in At}
    IN  IF ats = {} THEN TextEntityBotCommand(content, None)
        ELSE LET i == CHOOSE a \in ats : \A b \in ats : a <= b
             IN  TextEntityBotCommand(SubSeq(content, 1, i - 1),
                                      Some(SubSeq(content, i + 1, Len(content))))

\* Text::get_bot_commands: the bot commands of the text in entity-list order,
\* None when the text has no bot command entity
get_bot_commands(text) ==
    IF ~text.entities.some THEN None
    ELSE LET es == SelectSeq(text.entities.value, LAMBDA e : e.kind = "BotCommand")
         IN  IF es = <<>> THEN None
             ELSE Some([i \in 1..Len(es) |-> BotCommandOf(text.data, es[i])])

----------------------------------------------------------------------------
(* Command::try_from *)

\* struct Command
Command(name, args, msg) == [name |-> name, args |-> args, message |-> msg]

\* Result::Ok
Ok(command) == [tag |-> "Ok", command |-> command]

\* Result::Err
Err(error) == [tag |-> "Err", error |-> error]

\* enum CommandError
CommandError == {"NotFound", "Utf16", "MismatchedQuotes"}

\* ParseCommand with a quote-aware split that rejects an odd number of quotes
ParseCommandRejectingQuotes(commands, text, msg) ==
    LET command == commands[1]
        name == command.command
        offset == unwrap_or(find(text.data, name), 0)
        length == str_len(name)
                  + (IF command.bot_name.some THEN str_len(command.bot_name.value) + 1 ELSE 0)
        pos == offset + length
        raw_args == from_utf16(skip(encode_utf16(text.data), pos))
    IN  IF ~raw_args.some THEN Err("Utf16")
        ELSE IF Cardinality({i \in 1..Len(raw_args.value) : raw_args.value[i] \in Quote}) % 2 = 1
        THEN Err("MismatchedQuotes")
        ELSE Ok(Command(name, split_whitespace(raw_args.value), msg))

\* the Some((Some(commands), text)) arm of try_from
ParseCommand(commands, text, msg) ==
    LET command == commands[1]
        name == command.command
        offset == unwrap_or(find(text.data, name), 0)
        length == str_len(name)
                  + (IF command.bot_name.some THEN str_len(command.bot_name.value) + 1 ELSE 0)
        pos == offset + length
        raw_args == from_utf16(skip(encode_utf16(text.data), pos))
    IN  IF ~raw_args.some THEN Err("Utf16")
        ELSE Ok(Command(name, split_whitespace(raw_args.value), msg))

\* try_from taking the first word of a text without bot commands for the command
try_from_any_text(msg) ==
    IF ~msg.text.some THEN Err("NotFound")
    ELSE LET text == msg.text.value
             commands == get_bot_commands(text)
             words == split_whitespace(text.data)
         IN  IF commands.some THEN ParseCommand(commands.value, text, msg)
             ELSE IF words = <<>> THEN Err("NotFound")
             ELSE Ok(Command(Head(words), Tail(words), msg))

\* impl TryFrom<Message> for Command
try_from(msg) ==
    IF ~msg.text.some THEN Err("NotFound")
    ELSE LET text == msg.text.value
             commands == get_bot_commands(text)
         IN  IF ~commands.some THEN Err("NotFound")
             ELSE ParseCommand(commands.value, text, msg)

----------------------------------------------------------------------------
(* The messages the parser is run on *)

\* "/" letters, optionally followed by "@" letters
IsCommandToken(s) ==
    /\ Len(s) >= 2
    /\ s[1] \in Slash
    /\ \E n \in 2..Len(s) :
          /\ \A k \in 2..n : s[k] \in Letters
          /\ \/ n = Len(s)
             \/ /\ n + 2 <= Len(s)
                /\ s[n + 1] \in At
                /\ \A k \in (n + 2)..Len(s) : s[k] \in Letters

\* the length of a string in UTF-16 code units
utf16_len(s) == Len(encode_utf16(s))

\* the bot command entities the platform marks in data: every command token that
\* is delimited by whitespace or by the ends of the text
CommandEntities(data) ==
    {TextEntity("BotCommand", utf16_len(SubSeq(data, 1, i - 1)), utf16_len(SubSeq(data, i, j))) :
        <<i, j>> \in {p \in (1..Len(data)) \X (1..Len(data)) :
                        /\ p[1] <= p[2]
                        /\ IsCommandToken(SubSeq(data, p[1], p[2]))
                        /\ (p[1] = 1 \/ data[p[1] - 1] \in Whitespace)
                        /\ (p[2] = Len(data) \/ data[p[2] + 1] \in Whitespace)}}

\* an entity of another kind: the whole text in bold
OtherEntities(data) ==
    IF data = <<>> THEN {} ELSE {TextEntity("Bold", 0, utf16_len(data))}

\* the entities a text may carry
Entities(data) == CommandEntities(data) \cup OtherEntities(data)

\* msg is a message with a text of at most MaxLen characters of the alphabet and
\* either no entity list or at most MaxEntities entities of the text, in any order
IsInputMessage(msg) ==
    \E n \in 0..MaxLen : \E data \in [1..n -> Alphabet] :
        \/ msg = Message(Some(Text(data, None)))
        \/ \E k \in 0..MaxEntities : \E es \in [1..k -> Entities(data)] :
              msg = Message(Some(Text(data, Some(es))))

----------------------------------------------------------------------------
(* InputMediaVideo and its builder setters *)

\* the strings handed to a setter
StringValues == {<<97>>, <<97, 97>>}

\* the Integer values handed to a setter
IntegerValues == {1, 2}

\* the lists of caption entities handed to with_caption_entities
EntitiesValues == {<<>>, <<TextEntity("Bold", 0, 1)>>}

\* enum ParseMode
ParseMode == {"Html", "Markdown", "MarkdownV2"}

\* the shipping addresses handed to with_shipping_address
ShippingAddressValues == {"address1", "address2"}

\* InputMediaVideo::default()
InputMediaVideoDefault ==
    [caption |-> None, caption_entities |-> None, duration |-> None,
     has_spoiler |-> None, height |-> None, parse_mode |-> None,
     show_caption_above_media |-> None, supports_streaming |-> None, width |-> None]

with_caption(self, value) == [self EXCEPT !.caption = Some(value)]

\* with_caption_entities without the reset of the parse mode
with_caption_entities_keeping_parse_mode(self, value) ==
    [self EXCEPT !.caption_entities = Some(value)]

with_caption_entities(self, value) ==
    [self EXCEPT !.caption_entities = Some(value), !.parse_mode = None]

with_caption_parse_mode(self, value) ==
    [self EXCEPT !.parse_mode = Some(value), !.caption_entities = None]

with_duration(self, value) == [self EXCEPT !.duration = Some(value)]

with_has_spoiler(self, value) == [self EXCEPT !.has_spoiler = Some(value)]

\* with_height writing the width
with_height_setting_width(self, value) == [self EXCEPT !.width = Some(value)]

with_height(self, value) == [self EXCEPT !.height = Some(value)]

with_show_caption_above_media(self, value) ==
    [self EXCEPT !.show_caption_above_media = Some(value)]

with_supports_streaming(self, value) == [self EXCEPT !.supports_streaming = Some(value)]

with_width(self, value) == [self EXCEPT !.width = Some(value)]

----------------------------------------------------------------------------
(* OrderInfo and its builder setters *)

\* OrderInfo::default()
OrderInfoDefault ==
    [email |-> None, name |-> None, phone_number |-> None, shipping_address |-> None]

with_email(self, value) == [self EXCEPT !.email = Some(value)]

with_name(self, value) == [self EXCEPT !.name = Some(value)]

with_phone_number(self, value) == [self EXCEPT !.phone_number = Some(value)]

with_shipping_address(self, value) == [self EXCEPT !.shipping_address = Some(value)]

----------------------------------------------------------------------------
(* Specification of the parser: a message comes in, try_from is called on it *)

NoResult == [tag |-> "None"]

\* no builder call yet
NoCall == [fn |-> "none"]

\* a builder call: the setter, its argument and the record it was called on
Call(fn, value, before) == [fn |-> fn, value |-> value, before |-> before]

Init ==
    /\ \/ message = Message(None)
       \/ IsInputMessage(message)
    /\ result = NoResult
    /\ pc = "input"
    /\ built = "none"
    /\ video = InputMediaVideoDefault
    /\ order = OrderInfoDefault
    /\ last = NoCall

\* Command::try_from(message)
Parse ==
    /\ pc = "input"
    /\ result' = try_from(message)
    /\ pc' = "done"
    /\ UNCHANGED <<message, built, video, order, last>>

Next == Parse

Spec == Init /\ [][Next]_vars

----------------------------------------------------------------------------
(* Specification of the builders: a chain of setter calls on a default record *)

InitBuilder ==
    /\ message = Message(None)
    /\ result = NoResult
    /\ pc = "builder"
    /\ built \in {"InputMediaVideo", "OrderInfo"}
    /\ video = InputMediaVideoDefault
    /\ order = OrderInfoDefault
    /\ last = NoCall

\* one setter call of a chain on an InputMediaVideo
VideoCall(fn, value, after) ==
    /\ pc = "builder"
    /\ built = "InputMediaVideo"
    /\ video' = after
    /\ last' = Call(fn, value, video)
    /\ UNCHANGED <<message, result, pc, built, order>>

\* one setter call of a chain on an OrderInfo
OrderCall(fn, value, after) ==
    /\ pc = "builder"
    /\ built = "OrderInfo"
    /\ order' = after
    /\ last' = Call(fn, value, order)
    /\ UNCHANGED <<message, result, pc, built, video>>

CallWithCaption ==
    \E value \in StringValues :
        VideoCall("with_caption", value, with_caption(video, value))

CallWithCaptionEntities ==
    \E value \in EntitiesValues :
        VideoCall("with_caption_entities", value, with_caption_entities(video, value))

CallWithCaptionParseMode ==
    \E value \in ParseMode :
        VideoCall("with_caption_parse_mode", value, with_caption_parse_mode(video, value))

CallWithDuration ==
    \E value \in IntegerValues :
        VideoCall("with_duration", value, with_duration(video, value))

CallWithHasSpoiler ==
    \E value \in BOOLEAN :
        VideoCall("with_has_spoiler", value, with_has_spoiler(video, value))

CallWithHeight ==
    \E value \in IntegerValues :
        VideoCall("with_height", value, with_height(video, value))

CallWithShowCaptionAboveMedia ==
    \E value \in BOOLEAN :
        VideoCall("with_show_caption_above_media", value, with_show_caption_above_media(video, value))

CallWithSupportsStreaming ==
    \E value \in BOOLEAN :
        VideoCall("with_supports_streaming", value, with_supports_streaming(video, value))

CallWithWidth ==
    \E value \in IntegerValues :
        VideoCall("with_width", value, with_width(video, value))

CallWithEmail ==
    \E value \in StringValues :
        OrderCall("with_email", value, with_email(order, value))

CallWithName ==
    \E value \in StringValues :
        OrderCall("with_name", value, with_name(order, value))

CallWithPhoneNumber ==
    \E value \in StringValues :
        OrderCall("with_phone_number", value, with_phone_number(order, value))

CallWithShippingAddress ==
    \E value \in ShippingAddressValues :
        OrderCall("with_shipping_address", value, with_shipping_address(order, value))

NextBuilder ==
    \/ CallWithCaption
    \/ CallWithCaptionEntities
    \/ CallWithCaptionParseMode
    \/ CallWithDuration
    \/ CallWithHasSpoiler
    \/ CallWithHeight
    \/ CallWithShowCaptionAboveMedia
    \/ CallWithSupportsStreaming
    \/ CallWithWidth
    \/ CallWithEmail
    \/ CallWithName
    \/ CallWithPhoneNumber
    \/ CallWithShippingAddress

SpecBuilder == InitBuilder /\ [][NextBuilder]_vars

----------------------------------------------------------------------------
(* What the claims speak of *)

\* try_from has returned
Done == pc = "done"

\* the text of the message
Data == message.text.value.data

\* the bot command entities of the message, in entity-list order
BotCommandEntities ==
    IF message.text.some /\ message.text.value.entities.some
    THEN SelectSeq(message.text.value.entities.value, LAMBDA e : e.kind = "BotCommand")
    ELSE <<>>

\* the first bot command entity in entity-list order
FirstEntity == BotCommandEntities[1]

\* the number of characters of data that make up its first u UTF-16 code units
CharsOfUnits(data, u) == CHOOSE k \in 0..Len(data) : utf16_len(SubSeq(data, 1, k)) = u

\* the characters the entity e covers: the command token
TokenOf(data, e) ==
    SubSeq(data, CharsOfUnits(data, e.offset) + 1, CharsOfUnits(data, e.offset + e.length))

\* the text before the command token of e
TextBefore(data, e) == SubSeq(data, 1, CharsOfUnits(data, e.offset))

\* the text that follows the command token of e (the bot-name suffix is part of the token)
TextAfter(data, e) == SubSeq(data, CharsOfUnits(data, e.offset + e.length) + 1, Len(data))

\* the command name of the token: the token up to its '@'
NameOf(token) ==
    LET ats == {i \in 1..Len(token) : token[i] \in At}
    IN  IF ats = {} THEN token
        ELSE SubSeq(token, 1, (CHOOSE a \in ats : \A b \in ats : a <= b) - 1)

IsAscii(s) == \A i \in 1..Len(s) : s[i] < 128

\* the number of quotes in s
Quotes(s) == Cardinality({i \in 1..Len(s) : s[i] \in Quote})

\* s holds a quoted piece with a whitespace character inside
HasQuotedSpace(s) ==
    \E i, j \in 1..Len(s) :
        /\ i < j
        /\ s[i] \in Quote
        /\ s[j] \in Quote
        /\ \A k \in (i + 1)..(j - 1) : s[k] \notin Quote
        /\ \E k \in (i + 1)..(j - 1) : s[k] \in Whitespace
        /\ Quotes(SubSeq(s, 1, i - 1)) % 2 = 0

\* the first occurrence of the first entity's command name in the text is the
\* entity's own token
TokenIsFirstOccurrence ==
    LET name == NameOf(TokenOf(Data, FirstEntity))
        first == CHOOSE i \in 0..Len(Data) :
                    /\ MatchesAt(Data, name, i)
                    /\ \A j \in 0..(i - 1) : ~MatchesAt(Data, name, j)
    IN  first = CharsOfUnits(Data, FirstEntity.offset)

\* the parse succeeded with the name of the first entity and with the
\* whitespace-split of the text after the first entity's token as arguments
ParsedFirstEntity ==
    /\ result.tag = "Ok"
    /\ result.command.name = NameOf(TokenOf(Data, FirstEntity))
    /\ result.command.args = split_whitespace(TextAfter(Data, FirstEntity))

----------------------------------------------------------------------------
(* Claims about Command::try_from, under Spec *)

\* C1: try_from returns Err(NotFound) for every message without text and for
\* every message with text but without a bot command entity; no Command is
\* produced in either case.
C1_NotFoundWithoutCommand ==
    (Done /\ BotCommandEntities = <<>>) => result = Err("NotFound")

\* C1 witness: a parsed message that has a text and entities, none of them a bot command
C1_Witness ==
    /\ Done
    /\ message.text.some
    /\ message.text.value.entities.some
    /\ message.text.value.entities.value # <<>>
    /\ BotCommandEntities = <<>>
    /\ Len(split_whitespace(Data)) >= 2
    /\ result = Err("NotFound")

\* C2: for an ASCII-only text, a successful parse returns the name of the first
\* command entity (with its slash, without the bot name) and, as args, the
\* whitespace-split of exactly the text after the end of the command token (name
\* plus '@' and bot name) at the entity's position.
C2_AsciiArgsFollowToken ==
    (Done /\ BotCommandEntities # <<>> /\ IsAscii(Data) /\ result.tag = "Ok")
        => ParsedFirstEntity

\* C3: for a text with characters of more than one byte or of two UTF-16 code
\* units before the command token, the parse succeeds and args is the
\* whitespace-split of exactly the text that follows the command token (stated
\* for the texts in which the command name does not occur before the token).
C3_Utf16OffsetExact ==
    (/\ Done
     /\ BotCommandEntities # <<>>
     /\ TokenIsFirstOccurrence
     /\ ~IsAscii(TextBefore(Data, FirstEntity)))
        => ParsedFirstEntity

\* C4: with two or more command entities, the returned Command has the name of
\* the first entity in entity-list order and the args after that entity's token,
\* also when the second entity stands earlier in the text.
C4_FirstEntityHonoured ==
    (Done /\ Len(BotCommandEntities) >= 2 /\ result.tag = "Ok") => ParsedFirstEntity

\* C5: in every returned Command no element of args is empty or contains a
\* whitespace character, and when nothing but whitespace (or nothing) follows
\* the command token, args is the empty sequence.
C5_ArgsNeverEmptyStrings ==
    (Done /\ result.tag = "Ok") =>
        /\ \A i \in 1..Len(result.command.args) :
              /\ result.command.args[i] # <<>>
              /\ \A k \in 1..Len(result.command.args[i]) :
                    result.command.args[i][k] \notin Whitespace
        /\ (\A k \in 1..Len(TextAfter(Data, FirstEntity)) :
                TextAfter(Data, FirstEntity)[k] \in Whitespace)
              => result.command.args = <<>>

\* the first half of C5 alone: no element of args is empty or contains whitespace
ArgsAreWords ==
    (Done /\ result.tag = "Ok") =>
        \A i \in 1..Len(result.command.args) :
            /\ result.command.args[i] # <<>>
            /\ \A k \in 1..Len(result.command.args[i]) :
                  result.command.args[i][k] \notin Whitespace

\* C6: an argument wrapped in single quotes that contains a space is returned
\* as one element of args with its space, and a text with an unclosed quote
\* yields Err(MismatchedQuotes).
C6_QuotedArguments ==
    (Done /\ BotCommandEntities # <<>>) =>
        LET after == TextAfter(Data, FirstEntity)
        IN  /\ Quotes(after) % 2 = 1 => result = Err("MismatchedQuotes")
            /\ (Quotes(after) % 2 = 0 /\ HasQuotedSpace(after)) =>
                  /\ result.tag = "Ok"
                  /\ \E i \in 1..Len(result.command.args) :
                        \E k \in 1..Len(result.command.args[i]) :
                            result.command.args[i][k] \in Whitespace

\* C7: for well-formed input (the text is valid Unicode and the first command
\* entity is a token of the text; every message of this specification is)
\* try_from never returns the UTF-16 decode error.
C7_NoUtf16ErrorOnWellFormedInput ==
    Done => result # Err("Utf16")

----------------------------------------------------------------------------
(* Claims about the builders, under SpecBuilder *)

\* the record of the chain
Built == IF built = "InputMediaVideo" THEN video ELSE order

\* the setters of the record of the chain
Setters ==
    IF built = "InputMediaVideo"
    THEN {"with_caption", "with_caption_entities", "with_caption_parse_mode",
          "with_duration", "with_has_spoiler", "with_height",
          "with_show_caption_above_media", "with_supports_streaming", "with_width"}
    ELSE {"with_email", "with_name", "with_phone_number", "with_shipping_address"}

\* the field a setter is named after
FieldOf(fn) ==
    CASE fn = "with_caption" -> "caption"
      [] fn = "with_caption_entities" -> "caption_entities"
      [] fn = "with_caption_parse_mode" -> "parse_mode"
      [] fn = "with_duration" -> "duration"
      [] fn = "with_has_spoiler" -> "has_spoiler"
      [] fn = "with_height" -> "height"
      [] fn = "with_show_caption_above_media" -> "show_caption_above_media"
      [] fn = "with_supports_streaming" -> "supports_streaming"
      [] fn = "with_width" -> "width"
      [] fn = "with_email" -> "email"
      [] fn = "with_name" -> "name"
      [] fn = "with_phone_number" -> "phone_number"
      [] fn = "with_shipping_address" -> "shipping_address"

\* the values a setter is called with
ValuesOf(fn) ==
    CASE fn \in {"with_caption", "with_email", "with_name", "with_phone_number"} -> StringValues
      [] fn = "with_caption_entities" -> EntitiesValues
      [] fn = "with_caption_parse_mode" -> ParseMode
      [] fn \in {"with_duration", "with_height", "with_width"} -> IntegerValues
      [] fn \in {"with_has_spoiler", "with_show_caption_above_media",
                 "with_supports_streaming"} -> BOOLEAN
      [] fn = "with_shipping_address" -> ShippingAddressValues

\* the call of the setter fn
Apply(fn, self, value) ==
    CASE fn = "with_caption" -> with_caption(self, value)
      [] fn = "with_caption_entities" -> with_caption_entities(self, value)
      [] fn = "with_caption_parse_mode" -> with_caption_parse_mode(self, value)
      [] fn = "with_duration" -> with_duration(self, value)
      [] fn = "with_has_spoiler" -> with_has_spoiler(self, value)
      [] fn = "with_height" -> with_height(self, value)
      [] fn = "with_show_caption_above_media" -> with_show_caption_above_media(self, value)
      [] fn = "with_supports_streaming" -> with_supports_streaming(self, value)
      [] fn = "with_width" -> with_width(self, value)
      [] fn = "with_email" -> with_email(self, value)
      [] fn = "with_name" -> with_name(self, value)
      [] fn = "with_phone_number" -> with_phone_number(self, value)
      [] fn = "with_shipping_address" -> with_shipping_address(self, value)

\* the two setters that clear each other's field
ExclusivePair == {"with_caption_entities", "with_caption_parse_mode"}

\* C9: from InputMediaVideo::default(), after any sequence of setters,
\* caption_entities and parse_mode are never both set; with_caption_entities
\* leaves parse_mode = None, with_caption_parse_mode leaves caption_entities =
\* None, so the one called last is the only one of the two that is set.
C9_EntitiesXorParseMode ==
    /\ ~(video.caption_entities.some /\ video.parse_mode.some)
    /\ last.fn = "with_caption_entities" =>
          video.caption_entities.some /\ video.parse_mode = None
    /\ last.fn = "with_caption_parse_mode" =>
          video.parse_mode.some /\ video.caption_entities = None

\* C9 witness: with_caption_entities called on a video whose parse mode was set
C9_Witness ==
    /\ last.fn = "with_caption_entities"
    /\ last.before.parse_mode.some
    /\ video.parse_mode = None
    /\ video.caption_entities.some

\* C10: every setter sets its own field to Some(value), replacing an earlier
\* value, and leaves every other field unchanged, except that
\* with_caption_entities and with_caption_parse_mode clear each other's field;
\* hence two setters of different fields commute, except that pair.
C10_SetterFrame ==
    last.fn # "none" =>
        /\ last.fn \in Setters
        /\ Built[FieldOf(last.fn)] = Some(last.value)
        /\ \A f \in (DOMAIN Built) \ {FieldOf(last.fn)} :
              IF last.fn \in ExclusivePair /\ f \in {"caption_entities", "parse_mode"}
              THEN Built[f] = None
              ELSE Built[f] = last.before[f]
        /\ \A g \in Setters \ {last.fn} :
              ({g, last.fn} # ExclusivePair) =>
                  \A w \in ValuesOf(g) :
                      Apply(g, Built, w) = Apply(last.fn, Apply(g, last.before, w), last.value)

\* C10 witness: a setter has replaced an earlier value of its field on a record
\* that has other fields set
C10_Witness ==
    /\ last.fn = "with_height"
    /\ last.before.height.some
    /\ last.before.height # Some(last.value)
    /\ video.height = Some(last.value)
    /\ video.width.some
    /\ video.parse_mode.some

====
